---- MODULE Spec2Model ----
(***************************************************************************)
(* TransformerGeneratorModel (parlai/agents/transformer/modules/           *)
(* generator.py): assembly of an encoder and a decoder around one shared   *)
(* embedding, beam-search reordering of encoder and incremental decoder    *)
(* state, and the output projection with the start token masked.           *)
(*                                                                         *)
(* Objects that Python shares by reference (the embedding) live on `heap`  *)
(* and are named by their address.  An optional argument is a set holding  *)
(* no element (None / argument omitted) or one element.  Tensor indices    *)
(* are 0-based as in the source; TLA+ sequences are 1-based, hence the +1  *)
(* where a sequence is indexed.                                            *)
(***************************************************************************)
EXTENDS Integers, Sequences, FiniteSets, TLC

VARIABLES
    pc,                \* "new" before __init__ has run, "built" after
    heap,              \* embedding objects, by address (1..Len(heap))
    ctor_args,         \* arguments __init__ was called with
    pad_idx, start_idx, end_idx,   \* self.pad_idx, self.start_idx, self.end_idx (optional: unset before __init__)
    base,              \* arguments received by TorchGeneratorModel.__init__
    embeddings,        \* self.embeddings: set holding the address of the embedding
    encoder,           \* self.encoder
    decoder,           \* self.decoder
    built,             \* last direct call of build_encoder / build_decoder
    enc_call,          \* last call of reorder_encoder_states
    enc_prev,          \* states and index values of the call before enc_call
    dec_call,          \* last call of reorder_decoder_incremental_state
    layer_log,         \* calls the decoder layers received during dec_call
    out_call           \* last call of output

vars == <<pc, heap, ctor_args, pad_idx, start_idx, end_idx, base, embeddings,
          encoder, decoder, built, enc_call, enc_prev, dec_call, layer_log,
          out_call>>

ctor_vars == <<pc, heap, ctor_args, pad_idx, start_idx, end_idx, base,
               embeddings, encoder, decoder>>

-----------------------------------------------------------------------------
(* Bounds of the model *)

MaxHidden == 2      \* largest opt['embedding_size']
MaxLayers == 2      \* largest number of decoder layers
MaxRows == 2        \* most batch rows of the state a beam search starts from
MaxIndices == 2     \* longest index sequence handed to a reorder
MaxBatch == 2       \* largest batch dimension of a tensor handed to output
MaxTime == 2        \* largest time dimension of a tensor handed to output

RowValues == {-1, 1}          \* scales an embedding row is initialised with
Dtypes == {"float16", "float32"}
Devices == {"cpu", "cuda:0"}

-----------------------------------------------------------------------------
(* Collaborators: the dictionary, the component classes, the embedding *)

None == {}

NoCall == [called |-> FALSE]

Some(x) == {x}

TheValue(o) == CHOOSE x \in o : TRUE

\* DictionaryAgent: ind2tok lists the tokens by index, index 0 first.
len(dictionary) == Len(dictionary.ind2tok)

getitem(dictionary, tok) ==
    (CHOOSE i \in 1..len(dictionary) : dictionary.ind2tok[i] = tok) - 1

Dictionary(ind2tok) ==
    [ind2tok |-> ind2tok,
     null_token |-> "__null__",
     start_token |-> "__start__",
     end_token |-> "__end__"]

\* ParlAI's own order of the special tokens
ParlAIDictionary == Dictionary(<<"__null__", "__start__", "__end__", "__unk__">>)

\* Dictionaries: ParlAI's, and others that hold the special tokens at other
\* indices (a dictionary converted from fairseq does not keep ParlAI's order).
Dictionaries ==
    {ParlAIDictionary,
     Dictionary(<<"__null__", "__start__", "__end__">>),
     Dictionary(<<"__start__", "__null__", "__end__", "__unk__">>),
     Dictionary(<<"__unk__", "__end__", "__null__", "__start__">>)}

Opts == [embedding_size : 1..MaxHidden, n_layers : 1..MaxLayers]

ComponentSpec(klass, manifest) == [klass |-> klass, manifest |-> manifest]

ENCODER_DEFAULT_SPEC ==
    ComponentSpec("TransformerEncoder", "TransformerEncoder.Manifest()")

DECODER_DEFAULT_SPEC ==
    ComponentSpec("TransformerDecoder", "TransformerDecoder.Manifest()")

EncoderSpecs ==
    {ENCODER_DEFAULT_SPEC, ComponentSpec("CustomEncoder", "CustomEncoder.Manifest()")}

DecoderSpecs ==
    {DECODER_DEFAULT_SPEC, ComponentSpec("CustomDecoder", "CustomDecoder.Manifest()")}

Manifest_swapped ==
    [encoder |-> ENCODER_DEFAULT_SPEC, decoder |-> ENCODER_DEFAULT_SPEC]

\* TransformerGeneratorModel.Manifest(): the dataclass with its field defaults
Manifest ==
    [encoder |-> ENCODER_DEFAULT_SPEC, decoder |-> DECODER_DEFAULT_SPEC]

Manifests == [encoder : EncoderSpecs, decoder : DecoderSpecs]

\* The initial weight of the embedding is random, with row `pad` zeroed:
\* here row r is a scale a[r] drawn from rowvals times the vector <<1, 2, ..>>.
InitialWeights(dictionary, size, pad, rowvals) ==
    {[r \in 1..len(dictionary) |->
        [c \in 1..size |-> IF r = pad + 1 THEN 0 ELSE a[r] * c]] :
            a \in [1..len(dictionary) -> rowvals]}

\* create_embeddings(dictionary, embedding_size, padding_idx): a new
\* embedding object; w is the outcome of its random initialisation.
create_embeddings(dictionary, embedding_size, padding_idx, w) ==
    [num_embeddings |-> len(dictionary),
     embedding_dim |-> embedding_size,
     padding_idx |-> padding_idx,
     weight |-> w]

-----------------------------------------------------------------------------
(* build_encoder, build_decoder, __init__ *)

\* spec.klass(**kwargs): an instance of klass, constructed with kwargs
New(klass, kwargs) == [klass |-> klass, kwargs |-> kwargs]

build_encoder(opt, dictionary, embedding, padding_idx, reduction_type, spec) ==
    LET s == IF spec = None THEN ENCODER_DEFAULT_SPEC ELSE TheValue(spec)
    IN New(s.klass,
           [opt |-> opt,
            embedding |-> embedding,
            vocabulary_size |-> len(dictionary),
            padding_idx |-> padding_idx,
            reduction_type |-> reduction_type,
            manifest |-> s.manifest])

build_decoder(opt, embedding, spec) ==
    LET s == IF spec = None THEN ENCODER_DEFAULT_SPEC ELSE TheValue(spec)
    IN New(s.klass,
           [opt |-> opt, embedding |-> embedding, manifest |-> s.manifest])

init_indices_swapped(dictionary) ==
    [pad_idx |-> getitem(dictionary, dictionary.null_token),
     start_idx |-> getitem(dictionary, dictionary.end_token),
     end_idx |-> getitem(dictionary, dictionary.start_token)]

\* __init__, lines 81-83: the special-token indices read from the dictionary
init_indices(dictionary) ==
    [pad_idx |-> getitem(dictionary, dictionary.null_token),
     start_idx |-> getitem(dictionary, dictionary.start_token),
     end_idx |-> getitem(dictionary, dictionary.end_token)]

\* __init__, line 85: manifest = manifest or self.Manifest()
init_manifest(manifest) ==
    IF manifest = None THEN Manifest ELSE TheValue(manifest)

init_encoder(opt, dictionary, emb, pad, manifest) ==
    build_encoder(opt, dictionary, Some(emb), Some(pad), "None",
                  Some(manifest.encoder))

init_decoder_unshared(opt, emb, manifest) ==
    build_decoder(opt, None, Some(manifest.decoder))

init_decoder_encoder_spec(opt, emb, manifest) ==
    build_decoder(opt, Some(emb), Some(manifest.encoder))

\* __init__, lines 99-101
init_decoder(opt, emb, manifest) ==
    build_decoder(opt, Some(emb), Some(manifest.decoder))

\* TransformerGeneratorModel.__init__(opt, dictionary, manifest); w is the
\* outcome of the embedding's random initialisation.
TransformerGeneratorModel_init(opt, dictionary, manifest, w) ==
    /\ pc = "new"
    /\ LET idx == init_indices(dictionary)
           m == init_manifest(manifest)
           emb == Len(heap) + 1
       IN /\ pad_idx' = Some(idx.pad_idx)
          /\ start_idx' = Some(idx.start_idx)
          /\ end_idx' = Some(idx.end_idx)
          /\ base' = [padding_idx |-> idx.pad_idx,
                      start_idx |-> idx.start_idx,
                      end_idx |-> idx.end_idx]
          /\ heap' = Append(heap,
                 create_embeddings(dictionary, opt.embedding_size, idx.pad_idx, w))
          /\ embeddings' = Some(emb)
          /\ encoder' = init_encoder(opt, dictionary, emb, idx.pad_idx, m)
          /\ decoder' = init_decoder(opt, emb, m)
    /\ ctor_args' = [opt |-> opt, dictionary |-> dictionary, manifest |-> manifest]
    /\ pc' = "built"
    /\ UNCHANGED <<built, enc_call, enc_prev, dec_call, layer_log, out_call>>

\* A caller constructs the model
Construct(opts, dictionaries, manifests, rowvals) ==
    /\ pc = "new"
    /\ \E opt \in opts, dictionary \in dictionaries, manifest \in manifests :
         \E w \in InitialWeights(dictionary, opt.embedding_size,
                                 getitem(dictionary, dictionary.null_token),
                                 rowvals) :
             TransformerGeneratorModel_init(opt, dictionary, manifest, w)

OptionalManifests == {None} \cup {Some(m) : m \in Manifests}

\* A caller calls the classmethod build_encoder, with or without spec
BuildEncoder ==
    \E opt \in Opts, dictionary \in Dictionaries,
       spec \in {None} \cup {Some(s) : s \in EncoderSpecs} :
        /\ built' = [by |-> "build_encoder",
                     spec |-> spec,
                     ret |-> build_encoder(opt, dictionary, None, None, "mean", spec)]
        /\ UNCHANGED <<ctor_vars, enc_call, enc_prev, dec_call, layer_log,
                       out_call>>

\* A caller calls the classmethod build_decoder, with or without spec
BuildDecoder ==
    \E opt \in Opts, spec \in {None} \cup {Some(s) : s \in DecoderSpecs} :
        /\ built' = [by |-> "build_decoder",
                     spec |-> spec,
                     ret |-> build_decoder(opt, None, spec)]
        /\ UNCHANGED <<ctor_vars, enc_call, enc_prev, dec_call, layer_log,
                       out_call>>

-----------------------------------------------------------------------------
(* reorder_encoder_states *)

\* A tensor whose dimension 0 has the entries `rows`
Tensor(device, rows) == [type |-> "tensor", device |-> device, rows |-> rows]

\* A plain Python list of integers
List(items) == [type |-> "list", rows |-> items]

is_tensor(x) == x.type = "tensor"

\* torch.LongTensor(list): a CPU tensor holding the integers of the list
LongTensor(list) == Tensor("cpu", list.rows)

\* tensor.to(device)
to(tensor, device) == [tensor EXCEPT !.device = device]

\* torch.index_select(input, 0, index): entry i of the result is entry
\* index[i] of input; both tensors have to live on one device.
index_select(input, index) ==
    IF input.device = index.device
    THEN Tensor(input.device,
                [i \in 1..Len(index.rows) |-> input.rows[index.rows[i] + 1]])
    ELSE [type |-> "RuntimeError"]

reorder_encoder_states_mask_kept(encoder_states, indices) ==
    LET enc == encoder_states[1]
        mask == encoder_states[2]
        ind == IF ~is_tensor(indices)
               THEN to(LongTensor(indices), enc.device)
               ELSE indices
    IN <<index_select(enc, ind), mask>>

reorder_encoder_states_mask_shifted(encoder_states, indices) ==
    LET enc == encoder_states[1]
        mask == encoder_states[2]
        ind == IF ~is_tensor(indices)
               THEN to(LongTensor(indices), enc.device)
               ELSE indices
        rev == [ind EXCEPT !.rows =
                   [i \in 1..Len(ind.rows) |-> ind.rows[Len(ind.rows) + 1 - i]]]
    IN <<index_select(enc, ind), index_select(mask, rev)>>

reorder_encoder_states(encoder_states, indices) ==
    LET enc == encoder_states[1]
        mask == encoder_states[2]
        ind == IF ~is_tensor(indices)
               THEN to(LongTensor(indices), enc.device)
               ELSE indices
    IN <<index_select(enc, ind), index_select(mask, ind)>>

\* Encoder output for a batch of n source examples: row i of enc and row i
\* of mask both come from example i - 1.
EncoderOutput(device, n) ==
    <<Tensor(device, [i \in 1..n |-> [of |-> "enc", example |-> i - 1]]),
      Tensor(device, [i \in 1..n |-> [of |-> "mask", example |-> i - 1]])>>

\* Index sequences of length 1..MaxIndices into n rows
IndexSeqs(n) ==
    UNION {[1..k -> 0..(n - 1)] : k \in 1..MaxIndices}

\* The ways a caller hands over the index sequence s for states on `device`
IndexArgs(s, device) == {List(s), Tensor(device, s)}

\* Beam search reorders the encoder states it holds: the encoder's output at
\* first, the result of the previous reorder afterwards.
ReorderEncoderStates ==
    /\ pc = "built"
    /\ \E held \in IF enc_call.called
                   THEN {enc_call.ret}
                   ELSE {EncoderOutput(d, n) : d \in Devices, n \in 1..MaxRows} :
         \E s \in IndexSeqs(Len(held[1].rows)) :
           \E indices \in IndexArgs(s, held[1].device) :
             /\ enc_call' = [called |-> TRUE,
                             encoder_states |-> held,
                             indices |-> indices,
                             ret |-> reorder_encoder_states(held, indices)]
             /\ enc_prev' = IF enc_call.called
                             THEN [called |-> TRUE,
                                   encoder_states |-> enc_call.encoder_states,
                                   indices |-> enc_call.indices.rows]
                             ELSE NoCall
    /\ UNCHANGED <<ctor_vars, built, dec_call, layer_log, out_call>>

-----------------------------------------------------------------------------
(* reorder_decoder_incremental_state *)

\* self.decoder.layers: the layer objects of a decoder, one per opt['n_layers']
layers(dec) ==
    [i \in 1..dec.kwargs.opt.n_layers |-> [object |-> "DecoderLayer", number |-> i - 1]]

\* layer.reorder_incremental_state(incremental_state, inds): the layer's
\* cached tensors with their batch rows selected by inds
layer_reorder_incremental_state(layer, incremental_state, inds) ==
    index_select(incremental_state, inds)

enumerate_layers_first_state(lyrs, incremental_state, inds) ==
    [idx \in 0..(Len(lyrs) - 1) |->
        [layer |-> lyrs[idx + 1],
         incremental_state |-> incremental_state[0],
         inds |-> inds]]

\* The calls the comprehension makes, by key: for idx, layer in
\* enumerate(self.decoder.layers), layer gets (incremental_state[idx], inds)
enumerate_layers(lyrs, incremental_state, inds) ==
    [idx \in 0..(Len(lyrs) - 1) |->
        [layer |-> lyrs[idx + 1],
         incremental_state |-> incremental_state[idx],
         inds |-> inds]]

reorder_decoder_incremental_state(lyrs, incremental_state, inds) ==
    LET calls == enumerate_layers(lyrs, incremental_state, inds)
    IN [idx \in DOMAIN calls |->
           layer_reorder_incremental_state(calls[idx].layer,
                                           calls[idx].incremental_state,
                                           calls[idx].inds)]

\* The incremental state after decoding one step of a batch of n examples
\* with L layers: per layer, one cached row per example.
DecoderIncrementalState(device, L, n) ==
    [idx \in 0..(L - 1) |->
        Tensor(device, [i \in 1..n |-> [of |-> idx, example |-> i - 1]])]

\* Beam search reorders the incremental state it holds: the decoder's at
\* first, the result of the previous reorder afterwards.
ReorderDecoderIncrementalState ==
    /\ pc = "built"
    /\ \E held \in IF dec_call.called
                   THEN {dec_call.ret}
                   ELSE {DecoderIncrementalState(d, Len(layers(decoder)), n) :
                            d \in Devices, n \in 1..MaxRows} :
         \E s \in IndexSeqs(Len(held[0].rows)) :
           LET inds == Tensor(held[0].device, s)
               calls == enumerate_layers(layers(decoder), held, inds)
           IN /\ dec_call' = [called |-> TRUE,
                              incremental_state |-> held,
                              inds |-> inds,
                              ret |-> reorder_decoder_incremental_state(
                                          layers(decoder), held, inds)]
              /\ layer_log' =
                    [i \in 1..Len(layers(decoder)) |->
                        [layer |-> calls[i - 1].layer,
                         incremental_state |-> calls[i - 1].incremental_state,
                         inds |-> calls[i - 1].inds,
                         ret |-> layer_reorder_incremental_state(
                                     calls[i - 1].layer,
                                     calls[i - 1].incremental_state,
                                     calls[i - 1].inds)]]
    /\ UNCHANGED <<ctor_vars, built, enc_call, enc_prev, out_call>>

-----------------------------------------------------------------------------
(* output *)

\* A tensor entry holding the number m
Num(m) == [number |-> m]

\* neginf(dtype): the value the helper returns for dtype, the most negative
\* one the model uses for that dtype; it is no result of arithmetic
neginf(dtype) == [neginf |-> dtype]

RECURSIVE DotUpTo(_, _, _)
DotUpTo(x, w, h) ==
    IF h = 0 THEN 0 ELSE DotUpTo(x, w, h - 1) + x[h] * w[h]

\* F.linear(input, weight): input of shape (batch, time, hidden) times the
\* transpose of weight, of shape (vocabulary, hidden)
linear(input, weight) ==
    [dtype |-> input.dtype,
     data |-> [b \in DOMAIN input.data |->
                 [t \in DOMAIN input.data[b] |->
                    [v \in DOMAIN weight |->
                        Num(DotUpTo(input.data[b][t], weight[v],
                                    Len(weight[v])))]]]]

\* t[:, :, column] = value
set_column(t, column, value) ==
    [t EXCEPT !.data =
        [b \in DOMAIN t.data |->
           [ti \in DOMAIN t.data[b] |->
              [v \in DOMAIN t.data[b][ti] |->
                  IF v = column + 1 THEN value ELSE t.data[b][ti][v]]]]]

\* t[:, step] = value
set_step(t, step, value) ==
    [t EXCEPT !.data =
        [b \in DOMAIN t.data |->
           [ti \in DOMAIN t.data[b] |->
              [v \in DOMAIN t.data[b][ti] |->
                  IF ti = step + 1 THEN value ELSE t.data[b][ti][v]]]]]

output_unmasked(tensor, weight, start) ==
    [ret |-> linear(tensor, weight), tensor |-> tensor, weight |-> weight]

output_step_masked(tensor, weight, start) ==
    LET o == linear(tensor, weight)
    IN [ret |-> set_step(set_column(o, start, neginf(o.dtype)), start,
                         neginf(o.dtype)),
        tensor |-> tensor,
        weight |-> weight]

\* output(tensor) with self.embeddings.weight = weight, self.start_idx =
\* start: the value returned, and the two arguments as the call leaves them
output(tensor, weight, start) ==
    LET o == linear(tensor, weight)
    IN [ret |-> set_column(o, start, neginf(o.dtype)),
        tensor |-> tensor,
        weight |-> weight]

\* Hidden vectors of length size
HiddenVectors(size) ==
    {[c \in 1..size |-> 1], [c \in 1..size |-> c - 1]}

\* Decoder outputs of shape (batch, time, size)
HiddenTensors(size) ==
    UNION {[dtype : {dt}, data : [1..B -> [1..T -> HiddenVectors(size)]]] :
              dt \in Dtypes, B \in 1..MaxBatch, T \in 1..MaxTime}

\* The decoder's output is projected to logits.  One call per run: the call
\* reads the model and a further call would start from the same model.
Output ==
    /\ pc = "built"
    /\ ~out_call.called
    /\ LET emb == TheValue(embeddings)
       IN \E tensor \in HiddenTensors(heap[emb].embedding_dim) :
            LET r == output(tensor, heap[emb].weight, TheValue(start_idx))
            IN /\ out_call' = [called |-> TRUE,
                               tensor |-> tensor,
                               weight_of |-> emb,
                               weight |-> heap[emb].weight,
                               tensor_after |-> r.tensor,
                               ret |-> r.ret]
               /\ heap' = [heap EXCEPT ![emb].weight = r.weight]
    /\ UNCHANGED <<pc, ctor_args, pad_idx, start_idx, end_idx, base,
                   embeddings, encoder, decoder, built, enc_call, enc_prev,
                   dec_call, layer_log>>

-----------------------------------------------------------------------------

Init ==
    /\ pc = "new"
    /\ heap = <<>>
    /\ ctor_args = NoCall
    /\ pad_idx = None
    /\ start_idx = None
    /\ end_idx = None
    /\ base = NoCall
    /\ embeddings = None
    /\ encoder = NoCall
    /\ decoder = NoCall
    /\ built = [by |-> "nobody"]
    /\ enc_call = NoCall
    /\ enc_prev = NoCall
    /\ dec_call = NoCall
    /\ layer_log = <<>>
    /\ out_call = NoCall

NextBuild ==
    \/ Construct(Opts, Dictionaries, OptionalManifests, {1})
    \/ BuildEncoder
    \/ BuildDecoder

SpecBuild == Init /\ [][NextBuild]_vars

\* One model, built with the defaults, as a beam search uses it
DefaultOpts == {opt \in Opts : opt.embedding_size = 1 /\ opt.n_layers = 1}

NextEncoderStates ==
    \/ Construct(DefaultOpts, {ParlAIDictionary}, {None}, {1})
    \/ ReorderEncoderStates

SpecEncoderStates == Init /\ [][NextEncoderStates]_vars

\* Decoders of every depth
DecoderOpts == {opt \in Opts : opt.embedding_size = 1}

NextIncrementalState ==
    \/ Construct(DecoderOpts, {ParlAIDictionary}, {None}, {1})
    \/ ReorderDecoderIncrementalState

SpecIncrementalState == Init /\ [][NextIncrementalState]_vars

\* Models of every embedding size, dictionary and initial weight
OutputOpts == {opt \in Opts : opt.n_layers = 1}

NextOutput ==
    \/ Construct(OutputOpts, Dictionaries, {None}, RowValues)
    \/ Output

SpecOutput == Init /\ [][NextOutput]_vars

\* Models of every embedding size, dictionary and manifest
NextSharing ==
    \/ Construct(OutputOpts, Dictionaries, OptionalManifests, {1})
    \/ Output

SpecSharing == Init /\ [][NextSharing]_vars

Next ==
    \/ Construct(Opts, Dictionaries, OptionalManifests, RowValues)
    \/ BuildEncoder
    \/ BuildDecoder
    \/ ReorderEncoderStates
    \/ ReorderDecoderIncrementalState
    \/ Output

Spec == Init /\ [][Next]_vars

-----------------------------------------------------------------------------
(* Properties *)

Built == pc = "built"

\* Index (0-based) at which ind2tok holds tok
IndexOf(ind2tok, tok) ==
    (CHOOSE i \in 1..Len(ind2tok) : ind2tok[i] = tok) - 1

\* C1: in every logit tensor `output` returns, for every batch index b and
\* time index t, the entry at vocabulary index start_idx is the value neginf
\* gives for the tensor's dtype; the result keeps the input's batch and time
\* dimensions.
C1_StartTokenMasked ==
    out_call.called =>
        /\ DOMAIN out_call.ret.data = DOMAIN out_call.tensor.data
        /\ \A b \in DOMAIN out_call.ret.data :
              /\ DOMAIN out_call.ret.data[b] = DOMAIN out_call.tensor.data[b]
              /\ \A t \in DOMAIN out_call.ret.data[b] :
                    out_call.ret.data[b][t][TheValue(start_idx) + 1] =
                        neginf(out_call.ret.dtype)

\* A float16 batch of two rows and two steps was projected by a model whose
\* start token sits at index 3.
C1_Witness ==
    /\ out_call.called
    /\ out_call.tensor.dtype = "float16"
    /\ Len(out_call.tensor.data) = 2
    /\ Len(out_call.tensor.data[1]) = 2
    /\ start_idx = {3}

\* C2: once the model is constructed there is one embedding object; the
\* encoder and the decoder were handed that object, and `output` projects
\* with the weight of that object.
C2_SharedEmbedding ==
    Built =>
        /\ Len(heap) = 1
        /\ embeddings = {1}
        /\ encoder.kwargs.embedding = embeddings
        /\ decoder.kwargs.embedding = embeddings
        /\ out_call.called =>
              /\ out_call.weight_of \in embeddings
              /\ out_call.weight = heap[out_call.weight_of].weight

\* A model built from a manifest with custom components has projected.
C2_Witness ==
    /\ Built
    /\ out_call.called
    /\ encoder.klass = "CustomEncoder"
    /\ decoder.klass = "CustomDecoder"

\* C3: reorder_encoder_states returns enc' and mask' with as many rows as
\* there are indices, row i of each being row indices[i] of its input,
\* whether the indices come as a tensor or as a list.
C3_ReorderSelectsRows ==
    enc_call.called =>
        LET enc == enc_call.encoder_states[1]
            mask == enc_call.encoder_states[2]
            ix == enc_call.indices.rows
            k == Len(ix)
        IN /\ enc_call.ret[1].type = "tensor"
           /\ enc_call.ret[2].type = "tensor"
           /\ Len(enc_call.ret[1].rows) = k
           /\ Len(enc_call.ret[2].rows) = k
           /\ \A i \in 1..k :
                 /\ enc_call.ret[1].rows[i] = enc.rows[ix[i] + 1]
                 /\ enc_call.ret[2].rows[i] = mask.rows[ix[i] + 1]

\* States on the GPU were reordered by a plain list that repeats an index
\* and does not start at row 0.
C3_Witness ==
    /\ enc_call.called
    /\ ~is_tensor(enc_call.indices)
    /\ enc_call.encoder_states[1].device = "cuda:0"
    /\ enc_call.indices.rows = <<1, 1>>
    /\ Len(enc_call.encoder_states[1].rows) = 2

\* C4: reorder_decoder_incremental_state returns a dict with exactly the keys
\* 0..L-1; the value at idx is what layer idx returned when called with the
\* input entry for idx and the given inds, and each layer is called once.
C4_PerLayerReorder ==
    dec_call.called =>
        LET lyrs == layers(decoder)
            L == Len(lyrs)
        IN /\ DOMAIN dec_call.ret = 0..(L - 1)
           /\ Len(layer_log) = L
           /\ \A idx \in 0..(L - 1) :
                 /\ Cardinality({i \in 1..Len(layer_log) :
                                    layer_log[i].layer = lyrs[idx + 1]}) = 1
                 /\ \A i \in 1..Len(layer_log) :
                       layer_log[i].layer = lyrs[idx + 1] =>
                          /\ layer_log[i].incremental_state =
                                 dec_call.incremental_state[idx]
                          /\ layer_log[i].inds = dec_call.inds
                          /\ dec_call.ret[idx] = layer_log[i].ret

\* A two-layer decoder's state for two examples was reordered to <<1, 0>>.
C4_Witness ==
    /\ dec_call.called
    /\ Len(layers(decoder)) = 2
    /\ Len(dec_call.incremental_state[0].rows) = 2
    /\ dec_call.inds.rows = <<1, 0>>

\* C5: constructed with a manifest, the encoder is an instance of the
\* encoder spec's klass built with that spec's manifest, and the decoder an
\* instance of the decoder spec's klass built with that spec's manifest.
C5_ComponentsFromManifest ==
    (Built /\ ctor_args.manifest # None) =>
        LET m == TheValue(ctor_args.manifest)
        IN /\ encoder.klass = m.encoder.klass
           /\ encoder.kwargs.manifest = m.encoder.manifest
           /\ decoder.klass = m.decoder.klass
           /\ decoder.kwargs.manifest = m.decoder.manifest

\* A model was constructed from a manifest naming a custom encoder and the
\* default decoder.
C5_Witness ==
    /\ Built
    /\ ctor_args.manifest # None
    /\ encoder.klass = "CustomEncoder"
    /\ decoder.klass = "TransformerDecoder"

\* C6: pad_idx, start_idx and end_idx are the dictionary's indices of its
\* null, start and end tokens; the base class received the same three, and
\* pad_idx is the padding index of the embedding and of the encoder.
C6_SpecialIndices ==
    Built =>
        LET d == ctor_args.dictionary
            pad == IndexOf(d.ind2tok, d.null_token)
            start == IndexOf(d.ind2tok, d.start_token)
            end == IndexOf(d.ind2tok, d.end_token)
        IN /\ pad_idx = {pad}
           /\ start_idx = {start}
           /\ end_idx = {end}
           /\ base = [padding_idx |-> pad, start_idx |-> start, end_idx |-> end]
           /\ heap[TheValue(embeddings)].padding_idx = pad
           /\ encoder.kwargs.padding_idx = {pad}

\* A model was constructed over a dictionary that holds its start token at
\* index 3 and its null token at index 2.
C6_Witness ==
    /\ Built
    /\ start_idx = {3}
    /\ pad_idx = {2}
    /\ end_idx = {1}

\* C7: constructed without a manifest, the encoder is a TransformerEncoder
\* with TransformerEncoder's default manifest and the decoder a
\* TransformerDecoder with TransformerDecoder's default manifest.
C7_NoManifestIsDefault ==
    (Built /\ ctor_args.manifest = None) =>
        /\ encoder.klass = "TransformerEncoder"
        /\ encoder.kwargs.manifest = "TransformerEncoder.Manifest()"
        /\ decoder.klass = "TransformerDecoder"
        /\ decoder.kwargs.manifest = "TransformerDecoder.Manifest()"

\* A model was constructed without a manifest.
C7_Witness ==
    /\ Built
    /\ ctor_args.manifest = None
    /\ decoder.klass = "TransformerDecoder"

\* C8: build_decoder called without spec returns an instance of
\* TransformerDecoder, and build_encoder called without spec an instance of
\* TransformerEncoder.
C8_DefaultComponents ==
    /\ (built.by = "build_decoder" /\ built.spec = None) =>
          built.ret.klass = "TransformerDecoder"
    /\ (built.by = "build_encoder" /\ built.spec = None) =>
          built.ret.klass = "TransformerEncoder"

\* C9: after every reorder, row i of enc and row i of mask come from one
\* source example; and the result of reordering by a and then by b is the
\* state before the two calls reordered once by (a[b[0]], a[b[1]], ...).
C9_RowsStayAligned ==
    enc_call.called =>
        LET enc == enc_call.ret[1]
            mask == enc_call.ret[2]
            b == enc_call.indices.rows
        IN /\ Len(enc.rows) = Len(mask.rows)
           /\ \A i \in 1..Len(enc.rows) :
                 /\ enc.rows[i].of = "enc"
                 /\ mask.rows[i].of = "mask"
                 /\ enc.rows[i].example = mask.rows[i].example
           /\ enc_prev.called =>
                 LET a == enc_prev.indices
                     enc0 == enc_prev.encoder_states[1]
                     mask0 == enc_prev.encoder_states[2]
                 IN /\ Len(enc.rows) = Len(b)
                    /\ \A i \in 1..Len(b) :
                          /\ enc.rows[i] = enc0.rows[a[b[i] + 1] + 1]
                          /\ mask.rows[i] = mask0.rows[a[b[i] + 1] + 1]

\* Two reorders in a row, neither the identity: by <<1, 0>>, then by <<0, 0>>.
C9_Witness ==
    /\ enc_call.called
    /\ enc_prev.called
    /\ enc_prev.indices = <<1, 0>>
    /\ enc_call.indices.rows = <<0, 0>>
    /\ enc_call.ret[1].rows[1].example = 1

\* C10: every logit at a vocabulary index other than start_idx is the inner
\* product of the hidden vector with that row of the embedding weight, and
\* the call leaves the embedding weight and the input tensor as they were.
C10_OutputFrame ==
    out_call.called =>
        /\ \A b \in DOMAIN out_call.tensor.data :
              \A t \in DOMAIN out_call.tensor.data[b] :
                 \A v \in DOMAIN out_call.weight :
                    v # TheValue(start_idx) + 1 =>
                       out_call.ret.data[b][t][v] =
                          Num(DotUpTo(out_call.tensor.data[b][t],
                                      out_call.weight[v],
                                      Len(out_call.weight[v])))
        /\ heap[out_call.weight_of].weight = out_call.weight
        /\ out_call.tensor_after = out_call.tensor

\* A batch was projected whose logit for the end token is not zero, by a
\* model with embedding size 2.
C10_Witness ==
    /\ out_call.called
    /\ Len(out_call.tensor.data) = 2
    /\ heap[out_call.weight_of].embedding_dim = 2
    /\ out_call.ret.data[1][1][TheValue(end_idx) + 1] # Num(0)
    /\ out_call.ret.data[2][1][TheValue(end_idx) + 1] #
          out_call.ret.data[1][1][TheValue(end_idx) + 1]

====
